---- MODULE Spec2Model ----
(***************************************************************************)
(* LargeLocalStorage.js: a facade over four storage providers.  The module *)
(* closure loads the session metadata once, the constructor negotiates a   *)
(* provider through a chain of promise handlers, and every prototype       *)
(* method checks that an implementation is installed before delegating.    *)
(*                                                                         *)
(* JavaScript runs one handler at a time, so every action below is one     *)
(* synchronous piece of code: the module body, the constructor, a promise  *)
(* handler of the negotiation chain, or one prototype method call.         *)
(***************************************************************************)
EXTENDS Integers, Sequences, FiniteSets, TLC

(***************************************************************************)
(* Bounds of the model.                                                    *)
(***************************************************************************)
\* How many times the page (the process) is reloaded.
MaxRestarts == 1
\* How many facade methods are called in one page load.
MaxOps == 1

(***************************************************************************)
(* JavaScript values.                                                      *)
(***************************************************************************)
Undefined == [t |-> "undefined"]
Null == [t |-> "null"]
JSString(s) == [t |-> "string", s |-> s]
JSNumber(n) == [t |-> "number", n |-> n]
JSObject(o) == [t |-> "object", o |-> o]

\* ToBoolean, for the values the code tests with `if (x)` / `!x`.
Truthy(v) ==
  CASE v.t = "undefined" -> FALSE
    [] v.t = "null" -> FALSE
    [] v.t = "string" -> v.s # ""
    [] v.t = "number" -> v.n # 0
    [] OTHER -> TRUE

\* Whether a value is an object carrying the named property.
HasField(v, name) == v.t = "object" /\ name \in DOMAIN v.o

(***************************************************************************)
(* The providers.  Their code is outside this file: a provider is known    *)
(* here by its global name, and the adapter its init resolves with by the  *)
(* provider it came from and the `type` string it carries.                 *)
(***************************************************************************)
\* Mutant of Chain: the first two candidates swapped.
ChainSwapped ==
  << "IndexedDBProvider", "FilesystemAPIProvider",
     "WebSQLProvider", "LocalStorageProvider" >>

\* The fallback chain of selectImplementation, in the order it is written.
Chain ==
  << "FilesystemAPIProvider", "IndexedDBProvider",
     "WebSQLProvider", "LocalStorageProvider" >>

ProviderNames == { Chain[i] : i \in 1..Len(Chain) }

\* The `providers` lookup table: property name -> provider.
providers ==
  [ FileSystemAPI |-> "FilesystemAPIProvider",
    IndexedDB     |-> "IndexedDBProvider",
    WebSQL        |-> "WebSQLProvider",
    LocalStorage  |-> "LocalStorageProvider" ]

\* The backend kind an adapter of the given provider reports as impl.type.
ProviderType(p) ==
  CASE p = "FilesystemAPIProvider" -> "FilesystemAPI"
    [] p = "IndexedDBProvider"     -> "IndexedDB"
    [] p = "WebSQLProvider"        -> "WebSQL"
    [] p = "LocalStorageProvider"  -> "LocalStorage"

\* The adapter object a successful init of provider p resolves with.
Adapter(p) == [t |-> "adapter", provider |-> p, type |-> ProviderType(p)]

\* Position of a provider in the fallback chain.
ChainIndex(p) == CHOOSE i \in 1..Len(Chain) : Chain[i] = p

(***************************************************************************)
(* Inputs.                                                                 *)
(***************************************************************************)
\* The facades a page constructs, in the order it constructs them.
FacadeOrder == << "A", "B" >>

Facades == { FacadeOrder[i] : i \in 1..Len(FacadeOrder) }

\* config.forceProvider: absent, the keys of `providers`, and the spelling
\* the constructor's documentation gives for the filesystem backend
\* ('FilesystemAPI').
ForceValues ==
  { Undefined,
    JSString("FileSystemAPI"), JSString("FilesystemAPI"),
    JSString("IndexedDB"), JSString("WebSQL"), JSString("LocalStorage") }

\* What localStorage holds under 'LargeLocalStorage-meta' when the page
\* loads: nothing (getItem returns null), or the text of a record, with or
\* without a recorded kind.  Nothing in the file writes this key.
StoredValues ==
  { Null,
    JSString("{}"),
    JSString("{\"lastStorageImpl\":\"IndexedDB\"}") }

\* Any text the key can hold when the page loads, the store being shared
\* with whatever else writes it: besides the above, the JSON text `null`
\* and a text cut short, which is not JSON.
StoredTexts == StoredValues \cup { JSString("null"), JSString("{") }

(***************************************************************************)
(* Module body, lines 2-6: loading the session metadata.                   *)
(***************************************************************************)
\* JSON.parse on the texts the store can hold.  The result is either a
\* value or a thrown SyntaxError.
JSONparse(text) ==
  CASE text = "{}" ->
         [threw |-> FALSE, value |-> JSObject([lastStorageImpl |-> Undefined])]
    [] text = "{\"lastStorageImpl\":\"IndexedDB\"}" ->
         [threw |-> FALSE,
          value |-> JSObject([lastStorageImpl |-> JSString("IndexedDB")])]
    [] text = "null" -> [threw |-> FALSE, value |-> Null]
    [] OTHER -> [threw |-> TRUE, value |-> Undefined]

\* var sessionMeta = localStorage.getItem(...); if (sessionMeta) parse it,
\* else use {}.  An absent property of {} reads as undefined.
LoadSessionMeta(item) ==
  IF Truthy(item)
    THEN JSONparse(item.s)
    ELSE [threw |-> FALSE, value |-> JSObject([lastStorageImpl |-> Undefined])]

(***************************************************************************)
(* State.                                                                  *)
(***************************************************************************)
VARIABLES
  stored,       \* localStorage['LargeLocalStorage-meta']
  loaded,       \* whether the module body ran to its end
  sessionMeta,  \* the closure variable sessionMeta
  phase,        \* per facade: "unconstructed", "threw", "constructed"
  config,       \* per facade: config.forceProvider as passed
  inflight,     \* per facade: the provider whose init has not settled
  impl,         \* per facade: this._impl
  initialized,  \* per facade: the deferred behind this.initialized
  initLog,      \* per facade: providers whose init was called, in order
  failLog,      \* per facade: providers whose init rejected, in order
  hookCalls,    \* calls of copyOldData in this page load, in order
  selections,   \* facades whose implementation was installed, in order
  effects,      \* per facade: what its fulfilment handler did, in order
  restarts,     \* page loads so far
  prevSelected, \* type installed last in the previous page load
  lastCall,     \* the facade method call being made and what comes of it
  gatedCalls,   \* per facade: method calls made while it was not ready
  readyCalls,   \* per facade: method calls made while it was ready
  adapterCalls  \* per facade: operation calls its adapter has received

vars ==
  << stored, loaded, sessionMeta, phase, config, inflight, impl, initialized,
     initLog, failLog, hookCalls, selections, effects, restarts,
     prevSelected, lastCall, gatedCalls, readyCalls, adapterCalls >>

callVars == << lastCall, gatedCalls, readyCalls, adapterCalls >>

negotiationVars ==
  << stored, loaded, sessionMeta, phase, config, inflight, impl, initialized,
     initLog, failLog, hookCalls, selections, effects, restarts,
     prevSelected >>

NoProvider == "none"
NoType == "none"

PendingPromise == [state |-> "pending", value |-> Undefined]
Fulfilled(v) == [state |-> "fulfilled", value |-> v]
Rejected(v) == [state |-> "rejected", value |-> v]

\* No facade method has been called yet.
NoCall == [op |-> "none"]

\* The facade object itself, as a promise value.
Self(f) == [t |-> "facade", id |-> f]

(***************************************************************************)
(* selectImplementation, lines 28-47.                                      *)
(***************************************************************************)
\* The synchronous part: which init is called first, or the TypeError of
\* reading `.init` of an undefined table entry.
selectImplementation(force) ==
  IF Truthy(force)
    THEN IF force.s \in DOMAIN providers
           THEN [threw |-> FALSE, first |-> providers[force.s]]
           ELSE [threw |-> TRUE, first |-> NoProvider]
    ELSE [threw |-> FALSE, first |-> Chain[1]]

\* Mutant of NextCandidate: the chain ends after WebSQL, without the
\* LocalStorage fallback.
NextCandidateStopsEarly(force, p) ==
  IF Truthy(force) \/ p \in {"WebSQLProvider", "LocalStorageProvider"}
    THEN NoProvider
    ELSE IF p = "FilesystemAPIProvider" THEN "IndexedDBProvider"
         ELSE "WebSQLProvider"

\* Mutant of NextCandidate: the candidate that rejected is tried again.
NextCandidateRetries(force, p) == IF Truthy(force) THEN NoProvider ELSE p

\* Mutant of NextCandidate: a forced provider falls back like the others.
NextCandidateFallsBack(force, p) ==
  IF ChainIndex(p) < Len(Chain)
    THEN Chain[ChainIndex(p) + 1]
    ELSE NoProvider

\* The rejection handlers of the chain: the provider tried after p has
\* rejected, or NoProvider when the rejection reaches the caller.
NextCandidate(force, p) ==
  IF Truthy(force)
    THEN NoProvider
    ELSE IF ChainIndex(p) < Len(Chain)
           THEN Chain[ChainIndex(p) + 1]
           ELSE NoProvider

(***************************************************************************)
(* Initial state: the page has loaded the module once.                     *)
(***************************************************************************)
Init ==
  /\ stored \in StoredValues
  /\ loaded = ~LoadSessionMeta(stored).threw
  /\ sessionMeta = LoadSessionMeta(stored).value
  /\ phase = [f \in Facades |-> "unconstructed"]
  /\ config = [f \in Facades |-> Undefined]
  /\ inflight = [f \in Facades |-> NoProvider]
  /\ impl = [f \in Facades |-> Undefined]
  /\ initialized = [f \in Facades |-> PendingPromise]
  /\ initLog = [f \in Facades |-> << >>]
  /\ failLog = [f \in Facades |-> << >>]
  /\ hookCalls = << >>
  /\ selections = << >>
  /\ effects = [f \in Facades |-> << >>]
  /\ restarts = 0
  /\ prevSelected = NoType
  /\ lastCall = NoCall
  /\ gatedCalls = [f \in Facades |-> 0]
  /\ readyCalls = [f \in Facades |-> 0]
  /\ adapterCalls = [f \in Facades |-> 0]

\* The same, the key holding any text.  Where JSON.parse throws, the module
\* body does not run to its end and LargeLocalStorage stays undefined.
LoadInit ==
  /\ stored \in StoredTexts
  /\ loaded = ~LoadSessionMeta(stored).threw
  /\ sessionMeta = LoadSessionMeta(stored).value
  /\ phase = [f \in Facades |-> "unconstructed"]
  /\ config = [f \in Facades |-> Undefined]
  /\ inflight = [f \in Facades |-> NoProvider]
  /\ impl = [f \in Facades |-> Undefined]
  /\ initialized = [f \in Facades |-> PendingPromise]
  /\ initLog = [f \in Facades |-> << >>]
  /\ failLog = [f \in Facades |-> << >>]
  /\ hookCalls = << >>
  /\ selections = << >>
  /\ effects = [f \in Facades |-> << >>]
  /\ restarts = 0
  /\ prevSelected = NoType
  /\ lastCall = NoCall
  /\ gatedCalls = [f \in Facades |-> 0]
  /\ readyCalls = [f \in Facades |-> 0]
  /\ adapterCalls = [f \in Facades |-> 0]

(***************************************************************************)
(* The constructor, lines 106-124.                                         *)
(***************************************************************************)
\* new LargeLocalStorage(config): the synchronous part.
Construct(f, force) ==
  /\ loaded
  /\ lastCall = NoCall
  /\ phase[f] = "unconstructed"
  /\ \A i \in 1..Len(FacadeOrder) :
       FacadeOrder[i] = f =>
         \A j \in 1..(i - 1) : phase[FacadeOrder[j]] # "unconstructed"
  /\ config' = [config EXCEPT ![f] = force]
  /\ LET sel == selectImplementation(force) IN
       IF sel.threw
         THEN /\ phase' = [phase EXCEPT ![f] = "threw"]
              /\ UNCHANGED << inflight, initLog >>
         ELSE /\ phase' = [phase EXCEPT ![f] = "constructed"]
              /\ inflight' = [inflight EXCEPT ![f] = sel.first]
              /\ initLog' = [initLog EXCEPT ![f] = << sel.first >>]
  /\ UNCHANGED << stored, loaded, sessionMeta, impl, initialized, failLog,
                  hookCalls, selections, effects, restarts, prevSelected,
                  callVars >>

\* copyOldData(from, to), lines 49-52: logs only; recorded as a call.
copyOldData(f, from, to) == [facade |-> f, from |-> from, to |-> to]

\* Mutant of DiffersFromLast: the kinds are never compared, the hook is
\* called after every selection.
DiffersFromLastAlways(meta, type) == TRUE

\* Mutant of DiffersFromLast: the hook is never called.
DiffersFromLastNever(meta, type) == FALSE

\* Whether `sessionMeta.lastStorageImpl != type` (loose inequality of the
\* recorded value, a string or undefined, and a string).
DiffersFromLast(meta, type) == meta.o.lastStorageImpl # JSString(type)

\* Mutant of HandlerEffects: the recorded kind is written before the adapter
\* is installed.
HandlerEffectsWriteFirst(meta, type) ==
  IF meta.t # "object"
    THEN << "throw" >>
    ELSE << "setMeta", "install" >>
         \o (IF DiffersFromLast(meta, type) THEN << "hook" >> ELSE << >>)
         \o << "resolve" >>

\* The statements of the fulfilment handler that take effect, in the order
\* lines 111-116 run them: the assignment of this._impl, the call of
\* copyOldData, the assignment of sessionMeta.lastStorageImpl, and
\* deferred.resolve; or, after the assignment of this._impl, the TypeError
\* of reading a property of null.
HandlerEffects(meta, type) ==
  << "install" >>
  \o (IF meta.t # "object"
        THEN << "throw" >>
        ELSE (IF DiffersFromLast(meta, type) THEN << "hook" >> ELSE << >>)
             \o << "setMeta", "resolve" >>)

\* The fulfilment handler of lines 109-116, run with the adapter the chain
\* resolved with.  Reading a property of null throws a TypeError, which the
\* .catch of line 117 turns into a rejection.
InitResolved(f) ==
  /\ lastCall = NoCall
  /\ inflight[f] # NoProvider
  /\ LET a == Adapter(inflight[f]) IN
       /\ impl' = [impl EXCEPT ![f] = a]
       /\ selections' = Append(selections, f)
       /\ effects' = [effects EXCEPT ![f] = @ \o HandlerEffects(sessionMeta, a.type)]
       /\ IF sessionMeta.t = "object"
            THEN /\ hookCalls' =
                      IF DiffersFromLast(sessionMeta, a.type)
                        THEN Append(hookCalls,
                               copyOldData(f, sessionMeta.o.lastStorageImpl, a))
                        ELSE hookCalls
                 /\ sessionMeta' =
                      JSObject([sessionMeta.o EXCEPT
                                  !.lastStorageImpl = JSString(a.type)])
                 /\ initialized' = [initialized EXCEPT ![f] = Fulfilled(Self(f))]
            ELSE /\ UNCHANGED << hookCalls, sessionMeta >>
                 /\ initialized' =
                      [initialized EXCEPT
                         ![f] = Rejected(JSString("No storage provider found"))]
  /\ inflight' = [inflight EXCEPT ![f] = NoProvider]
  /\ UNCHANGED << stored, loaded, phase, config, initLog, failLog,
                  restarts, prevSelected, callVars >>

\* The init in flight rejects: the chain's next rejection handler calls the
\* next provider's init, or the rejection reaches the .catch of line 117.
InitRejected(f) ==
  /\ lastCall = NoCall
  /\ inflight[f] # NoProvider
  /\ failLog' = [failLog EXCEPT ![f] = Append(@, inflight[f])]
  /\ LET n == NextCandidate(config[f], inflight[f]) IN
       IF n = NoProvider
         THEN /\ inflight' = [inflight EXCEPT ![f] = NoProvider]
              /\ initialized' =
                   [initialized EXCEPT
                      ![f] = Rejected(JSString("No storage provider found"))]
              /\ UNCHANGED initLog
         ELSE /\ inflight' = [inflight EXCEPT ![f] = n]
              /\ initLog' = [initLog EXCEPT ![f] = Append(@, n)]
              /\ UNCHANGED initialized
  /\ UNCHANGED << stored, loaded, sessionMeta, phase, config, impl,
                  hookCalls, selections, effects, restarts, prevSelected,
                  callVars >>

(***************************************************************************)
(* The prototype, lines 126-416.  `this` is passed as the value of         *)
(* this._impl, the only field the methods read.                            *)
(***************************************************************************)
\* Mutant of NoImplementationError: another code.
NoImplementationErrorOtherCode ==
  JSObject([ msg  |-> "No storage implementation is available yet.",
             code |-> "NOT_READY" ])

\* The object _checkAvailability throws, lines 410-413.
NoImplementationError ==
  JSObject([ msg  |-> "No storage implementation is available yet.",
             code |-> "NO_IMPLEMENTATION" ])

\* What the engine throws for a property read of undefined or null.
TypeError == JSObject([name |-> "TypeError", message |-> "Cannot read property"])

\* Mutant of checkAvailabilityThrows: the check never throws.
checkAvailabilityNeverThrows(this) == FALSE

\* _checkAvailability, lines 408-415: TRUE when it throws.
checkAvailabilityThrows(this) == ~Truthy(this)

\* Mutant of ready: strict inequality, this._impl !== null.
readyStrict(this) == this.t # "null"

\* ready(), lines 150-152: this._impl != null (loose inequality).
ready(this) == this.t \notin {"undefined", "null"}

\* What a method call comes to: it threw `error`, or it returned `returned`
\* after the adapter received `received` (NoCall: the adapter was not called).
Threw(e) == [threw |-> TRUE, error |-> e, received |-> NoCall, returned |-> Undefined]
Returned(c, v) == [threw |-> FALSE, error |-> Undefined, received |-> c, returned |-> v]

\* The value the adapter hands back for a call: opaque to the facade, so it
\* is named by the adapter and the call that produced it.
AdapterReturn(this, c) == [t |-> "result", of |-> this.provider, call |-> c]

\* Mutant of Delegate: the availability check is left out.
DelegateUnchecked(this, op, args) ==
  IF this.t = "adapter"
    THEN Returned([op |-> op, args |-> args],
                  AdapterReturn(this, [op |-> op, args |-> args]))
    ELSE Threw(TypeError)

\* Mutant of Delegate: the call goes to the adapter of the first provider of
\* the chain, whichever adapter the facade holds.
DelegateElsewhere(this, op, args) ==
  IF checkAvailabilityThrows(this)
    THEN Threw(NoImplementationError)
    ELSE Returned([op |-> op, args |-> args],
                  AdapterReturn(Adapter(Chain[1]), [op |-> op, args |-> args]))

\* this._checkAvailability(); return this._impl.<op>(<args>);
Delegate(this, op, args) ==
  IF checkAvailabilityThrows(this)
    THEN Threw(NoImplementationError)
    ELSE IF this.t = "adapter"
           THEN Returned([op |-> op, args |-> args],
                         AdapterReturn(this, [op |-> op, args |-> args]))
           ELSE Threw(TypeError)

\* Mutant of DefaultDocKey: the key is passed on as given.
DefaultDocKeyKept(docKey) == docKey

\* if (!docKey) docKey = '__nodoc__';
DefaultDocKey(docKey) == IF ~Truthy(docKey) THEN JSString("__nodoc__") ELSE docKey

supportsAttachments(this) == Delegate(this, "supportsAttachments", << >>)

ls(this, docKey) == Delegate(this, "ls", << docKey >>)

rm(this, docKey) == Delegate(this, "rm", << docKey >>)

getContents(this, docKey) == Delegate(this, "getContents", << docKey >>)

\* Mutant of setContents: the data is not passed on.
setContentsDropsData(this, docKey, data) ==
  Delegate(this, "setContents", << docKey >>)

setContents(this, docKey, data) ==
  Delegate(this, "setContents", << docKey, data >>)

getAttachment(this, docKey, attachKey) ==
  Delegate(this, "getAttachment", << DefaultDocKey(docKey), attachKey >>)

setAttachment(this, docKey, attachKey, data) ==
  Delegate(this, "setAttachment", << DefaultDocKey(docKey), attachKey, data >>)

getAttachmentURL(this, docKey, attachKey) ==
  Delegate(this, "getAttachmentURL", << DefaultDocKey(docKey), attachKey >>)

getAllAttachments(this, docKey) ==
  Delegate(this, "getAllAttachments", << DefaultDocKey(docKey) >>)

getAllAttachmentURLs(this, docKey) ==
  Delegate(this, "getAllAttachmentURLs", << DefaultDocKey(docKey) >>)

revokeAttachmentURL(this, url) ==
  Delegate(this, "revokeAttachmentURL", << url >>)

rmAttachment(this, docKey, attachKey) ==
  Delegate(this, "rmAttachment", << DefaultDocKey(docKey), attachKey >>)

\* Mutant of getCapacity: no availability check; -1 whenever there is no
\* getCapacity to call.
getCapacityUnchecked(this, hasGetCapacity) ==
  IF this.t = "adapter" /\ hasGetCapacity
    THEN Returned([op |-> "getCapacity", args |-> << >>],
                  AdapterReturn(this, [op |-> "getCapacity", args |-> << >>]))
    ELSE Returned(NoCall, JSNumber(-1))

\* getCapacity, lines 400-406.  hasGetCapacity: whether the adapter object
\* carries a getCapacity property (read only once the check has passed).
getCapacity(this, hasGetCapacity) ==
  IF checkAvailabilityThrows(this)
    THEN Threw(NoImplementationError)
    ELSE IF this.t # "adapter"
           THEN Threw(TypeError)
           ELSE IF hasGetCapacity
                  THEN Delegate(this, "getCapacity", << >>)
                  ELSE Returned(NoCall, JSNumber(-1))

\* The calls a page makes: method name and arguments as passed.  An
\* attachment method is called without a document key, with null or the
\* empty string as the key, with the sentinel and with the key of a
\* document.
DocKeys ==
  { Undefined, Null, JSString(""), JSString("__nodoc__"), JSString("d1") }
AttachKey == JSString("a1")
Data == JSString("bytes")
Url == JSString("blob:1")

AttachmentOps ==
  { "getAttachment", "setAttachment", "getAttachmentURL",
    "getAllAttachments", "getAllAttachmentURLs", "rmAttachment" }

GatedOps ==
  AttachmentOps \cup
  { "supportsAttachments", "ls", "rm", "getContents", "setContents",
    "revokeAttachmentURL", "getCapacity" }

\* The arguments after the document key that a method takes.
RestArgs(op) ==
  CASE op \in {"getAttachment", "getAttachmentURL", "rmAttachment"} ->
         << AttachKey >>
    [] op = "setAttachment" -> << AttachKey, Data >>
    [] op = "setContents" -> << Data >>
    [] OTHER -> << >>

Invocations ==
  { [op |-> "supportsAttachments", args |-> << >>],
    [op |-> "revokeAttachmentURL", args |-> << Url >>],
    [op |-> "getCapacity", args |-> << >>],
    [op |-> "ls", args |-> << Undefined >>] }
  \cup { [op |-> o, args |-> << JSString("d1") >> \o RestArgs(o)] :
           o \in {"rm", "getContents", "setContents"} }
  \cup { [op |-> o, args |-> << d >> \o RestArgs(o)] :
           o \in AttachmentOps, d \in DocKeys }

\* Method dispatch: facade.<op>(...args).
Invoke(this, c, hasGetCapacity) ==
  CASE c.op = "supportsAttachments" -> supportsAttachments(this)
    [] c.op = "ls" -> ls(this, c.args[1])
    [] c.op = "rm" -> rm(this, c.args[1])
    [] c.op = "getContents" -> getContents(this, c.args[1])
    [] c.op = "setContents" -> setContents(this, c.args[1], c.args[2])
    [] c.op = "getAttachment" -> getAttachment(this, c.args[1], c.args[2])
    [] c.op = "setAttachment" ->
         setAttachment(this, c.args[1], c.args[2], c.args[3])
    [] c.op = "getAttachmentURL" -> getAttachmentURL(this, c.args[1], c.args[2])
    [] c.op = "getAllAttachments" -> getAllAttachments(this, c.args[1])
    [] c.op = "getAllAttachmentURLs" -> getAllAttachmentURLs(this, c.args[1])
    [] c.op = "revokeAttachmentURL" -> revokeAttachmentURL(this, c.args[1])
    [] c.op = "rmAttachment" -> rmAttachment(this, c.args[1], c.args[2])
    [] c.op = "getCapacity" -> getCapacity(this, hasGetCapacity)

\* Method calls made in this page load on the first n facades.
RECURSIVE CallsOnFirst(_)
CallsOnFirst(n) ==
  IF n = 0
    THEN 0
    ELSE gatedCalls[FacadeOrder[n]] + readyCalls[FacadeOrder[n]]
         + CallsOnFirst(n - 1)

CallsMade == CallsOnFirst(Len(FacadeOrder))

\* The page calls a method of a constructed facade.  The call is synchronous:
\* lastCall holds it, with its outcome, until it returns to the page.
FacadeCall(f, c, hasGetCapacity) ==
  /\ lastCall = NoCall
  /\ phase[f] = "constructed"
  /\ CallsMade < MaxOps
  /\ hasGetCapacity \/ c.op = "getCapacity"
  /\ LET r == Invoke(impl[f], c, hasGetCapacity) IN
       /\ lastCall' =
            [ op |-> c.op, args |-> c.args, facade |-> f,
              wasReady |-> ready(impl[f]),
              settled |-> initialized[f].state,
              hasGetCapacity |-> hasGetCapacity,
              threw |-> r.threw, error |-> r.error,
              received |-> r.received, returned |-> r.returned ]
       /\ adapterCalls' =
            [adapterCalls EXCEPT
               ![f] = IF r.received = NoCall THEN @ ELSE @ + 1]
  /\ IF ready(impl[f])
       THEN /\ readyCalls' = [readyCalls EXCEPT ![f] = @ + 1]
            /\ UNCHANGED gatedCalls
       ELSE /\ gatedCalls' = [gatedCalls EXCEPT ![f] = @ + 1]
            /\ UNCHANGED readyCalls
  /\ UNCHANGED negotiationVars

\* The method call returns (or its exception unwinds) to the page.
CallReturns ==
  /\ lastCall # NoCall
  /\ lastCall' = NoCall
  /\ UNCHANGED << negotiationVars, gatedCalls, readyCalls, adapterCalls >>

(***************************************************************************)
(* The page is reloaded: every object of the old page is gone, the module  *)
(* body runs again against whatever localStorage holds.                    *)
(***************************************************************************)
LastType ==
  IF selections = << >>
    THEN prevSelected
    ELSE impl[selections[Len(selections)]].type

Restart ==
  /\ lastCall = NoCall
  /\ restarts < MaxRestarts
  /\ restarts' = restarts + 1
  /\ prevSelected' = LastType
  /\ stored' = stored
  /\ loaded' = ~LoadSessionMeta(stored).threw
  /\ sessionMeta' = LoadSessionMeta(stored).value
  /\ phase' = [f \in Facades |-> "unconstructed"]
  /\ config' = [f \in Facades |-> Undefined]
  /\ inflight' = [f \in Facades |-> NoProvider]
  /\ impl' = [f \in Facades |-> Undefined]
  /\ initialized' = [f \in Facades |-> PendingPromise]
  /\ initLog' = [f \in Facades |-> << >>]
  /\ failLog' = [f \in Facades |-> << >>]
  /\ hookCalls' = << >>
  /\ selections' = << >>
  /\ effects' = [f \in Facades |-> << >>]
  /\ lastCall' = NoCall
  /\ gatedCalls' = [f \in Facades |-> 0]
  /\ readyCalls' = [f \in Facades |-> 0]
  /\ adapterCalls' = [f \in Facades |-> 0]

(***************************************************************************)
(* Properties.                                                             *)
(***************************************************************************)
Constructed(f) == phase[f] = "constructed"
Forced(f) == Truthy(config[f])
Installed(f) == impl[f].t = "adapter"
Settled(f) == Constructed(f) /\ inflight[f] = NoProvider
Types(log) == [i \in 1..Len(log) |-> ProviderType(log[i])]
InLog(p, log) == \E i \in 1..Len(log) : log[i] = p
IsNoImplementation(e) == HasField(e, "code") /\ e.o.code = "NO_IMPLEMENTATION"

\* The order of backend kinds the fallback is to follow.
FallbackOrder == << "FilesystemAPI", "IndexedDB", "WebSQL", "LocalStorage" >>

\* C1: without forceProvider the inits are called in the order FilesystemAPI,
\* IndexedDB, WebSQL, LocalStorage, each only after all before it rejected;
\* the adapter installed is that of the first kind whose init succeeded, no
\* later kind's init is called, and whenever LocalStorage's init has not
\* failed a settled negotiation has installed an adapter.
C1_FallbackOrder ==
  \A f \in Facades :
    (Constructed(f) /\ ~Forced(f)) =>
      LET called == Types(initLog[f])
          failed == Types(failLog[f])
      IN /\ Len(called) <= Len(FallbackOrder)
         /\ called = SubSeq(FallbackOrder, 1, Len(called))
         /\ failed = SubSeq(FallbackOrder, 1, Len(failed))
         /\ Len(called) = Len(failed) + (IF Installed(f) \/ ~Settled(f) THEN 1 ELSE 0)
         /\ Installed(f) =>
              /\ impl[f].type = FallbackOrder[Len(failed) + 1]
              /\ impl[f].provider = initLog[f][Len(initLog[f])]
              /\ inflight[f] = NoProvider
         /\ (Settled(f) /\ ~InLog("LocalStorageProvider", failLog[f])) =>
              /\ Installed(f)
              /\ initialized[f] = Fulfilled(Self(f))

\* C1 witness: an unforced facade holds the WebSQL adapter after the two
\* kinds before it failed.
C1_Witness ==
  \E f \in Facades :
    /\ Constructed(f) /\ ~Forced(f) /\ Installed(f)
    /\ impl[f].type = "WebSQL"
    /\ Len(failLog[f]) = 2

\* C2: with forceProvider set only that provider's init is ever called, and
\* at most once; if it succeeds its adapter is the one installed; if it fails
\* the negotiation rejects, nothing is installed and no other init is called.
C2_ForcedProvider ==
  \A f \in Facades :
    (phase[f] # "unconstructed" /\ Forced(f)) =>
      /\ Len(initLog[f]) <= 1
      /\ \A i \in 1..Len(initLog[f]) : initLog[f][i] = providers[config[f].s]
      /\ Installed(f) =>
           /\ impl[f] = Adapter(providers[config[f].s])
           /\ failLog[f] = << >>
           /\ initialized[f] = Fulfilled(Self(f))
      /\ failLog[f] # << >> =>
           /\ initialized[f].state = "rejected"
           /\ ~Installed(f)
           /\ inflight[f] = NoProvider

\* C2 witness: one facade forced to WebSQL holds the WebSQL adapter, and a
\* facade whose forced provider failed is rejected.
C2_Witness ==
  /\ \E f \in Facades :
       /\ config[f] = JSString("WebSQL") /\ Installed(f)
       /\ impl[f].type = "WebSQL"
  /\ \E f \in Facades :
       /\ Forced(f) /\ failLog[f] # << >>
       /\ initialized[f].state = "rejected"

\* C3: a method called before `initialized` is fulfilled throws the
\* NO_IMPLEMENTATION error without calling the adapter, and the call is not
\* kept: an adapter receives only calls made while its facade was ready, so
\* nothing called earlier reaches it once it is installed.
C3_FailFastGate ==
  /\ (lastCall # NoCall /\ lastCall.settled # "fulfilled") =>
       /\ lastCall.op \in GatedOps
       /\ lastCall.threw
       /\ IsNoImplementation(lastCall.error)
       /\ lastCall.received = NoCall
  /\ \A f \in Facades :
       /\ adapterCalls[f] <= readyCalls[f]
       /\ initialized[f].state # "fulfilled" => adapterCalls[f] = 0

\* C3 witness: a method call failed at the gate, the adapter was installed
\* afterwards, and it has received no call.
C3_Witness ==
  \E f \in Facades :
    /\ gatedCalls[f] > 0
    /\ Installed(f)
    /\ initialized[f].state = "fulfilled"
    /\ adapterCalls[f] = 0

\* The kind the persisted record holds.
PersistedKind == LoadSessionMeta(stored).value.o.lastStorageImpl

\* The calls of copyOldData made for facade f.
HookCallsOf(f) == { i \in 1..Len(hookCalls) : hookCalls[i].facade = f }

\* C4: after a page load whose last negotiation selected K1, the first
\* negotiation of the next page load that selects K2 # K1 calls the migration
\* hook exactly once, from K1 to the K2 adapter, and the persisted record
\* then holds K2.
C4_MigrationAcrossRestart ==
  \A f \in Facades :
    ( /\ restarts > 0
      /\ prevSelected # NoType
      /\ selections # << >>
      /\ selections[1] = f
      /\ initialized[f].state = "fulfilled"
      /\ impl[f].type # prevSelected ) =>
      /\ Cardinality(HookCallsOf(f)) = 1
      /\ \A i \in HookCallsOf(f) :
           /\ hookCalls[i].from = JSString(prevSelected)
           /\ hookCalls[i].to = impl[f]
      /\ PersistedKind = JSString(impl[f].type)

\* C5: the constructor never throws: for every forceProvider value, absent
\* or one of FilesystemAPI, IndexedDB, WebSQL, LocalStorage, it returns a
\* facade whose `initialized` is pending and whose ready() is false.
C5_ConstructionNeverThrows ==
  \A f \in Facades :
    /\ phase[f] # "threw"
    /\ (Constructed(f) /\ failLog[f] = << >> /\ inflight[f] # NoProvider) =>
         /\ initialized[f] = PendingPromise
         /\ ~ready(impl[f])

C7_NoPartiallyReady ==
  /\ \A f \in Facades :
       /\ ready(impl[f]) <=> Installed(f)
       /\ initialized[f].state = "fulfilled" => ready(impl[f])
  /\ lastCall # NoCall =>
       /\ lastCall.wasReady = ready(impl[lastCall.facade])
       /\ ~lastCall.wasReady =>
            /\ lastCall.threw
            /\ IsNoImplementation(lastCall.error)
            /\ lastCall.received = NoCall
       /\ lastCall.wasReady =>
            /\ ~lastCall.threw
            /\ \/ /\ lastCall.received # NoCall
                  /\ lastCall.received.op = lastCall.op
               \/ /\ lastCall.op = "getCapacity"
                  /\ ~lastCall.hasGetCapacity

\* C7 witness: a method call is delegated on a ready facade while the other
\* facade is constructed and not ready.
C7_Witness ==
  /\ lastCall # NoCall
  /\ lastCall.wasReady
  /\ lastCall.received # NoCall
  /\ \E f \in Facades : Constructed(f) /\ ~ready(impl[f])

\* The errors the facade itself has surfaced: what the method call being
\* made threw, and the reasons `initialized` was rejected with.
SurfacedErrors ==
  (IF lastCall # NoCall /\ lastCall.threw THEN {lastCall.error} ELSE {})
  \cup { initialized[f].value : f \in { g \in Facades : initialized[g].state = "rejected" } }

\* C8 as stated: every error the facade surfaces carries a `message` and a
\* `code` field, and the gate error's code is NO_IMPLEMENTATION.
C8_ErrorShapeAsStated ==
  /\ \A e \in SurfacedErrors : HasField(e, "message") /\ HasField(e, "code")
  /\ (lastCall # NoCall /\ lastCall.threw) => IsNoImplementation(lastCall.error)

\* C8 amended: the gate error is an object carrying a `msg` and a `code`
\* field (no `message` field) with code NO_IMPLEMENTATION; `initialized` is
\* rejected with the bare string 'No storage provider found', which carries
\* no field at all.
C8_ErrorShape ==
  /\ (lastCall # NoCall /\ lastCall.threw) =>
       /\ HasField(lastCall.error, "msg")
       /\ HasField(lastCall.error, "code")
       /\ ~HasField(lastCall.error, "message")
       /\ lastCall.error.o.code = "NO_IMPLEMENTATION"
  /\ \A f \in Facades :
       initialized[f].state = "rejected" =>
         initialized[f].value = JSString("No storage provider found")

\* C8 witness: a method call has thrown at the gate on a facade whose
\* `initialized` was rejected.
C8_Witness ==
  /\ lastCall # NoCall
  /\ lastCall.threw
  /\ initialized[lastCall.facade].state = "rejected"

\* C9: on a ready facade an attachment method called without a document key
\* does what the same call with the key '__nodoc__' does: the adapter
\* receives the same method with '__nodoc__' and the same remaining
\* arguments, and the caller gets the same result.
C9_SentinelNormalization ==
  (lastCall # NoCall /\ lastCall.wasReady /\ lastCall.op \in AttachmentOps
     /\ lastCall.args[1] = Undefined) =>
    LET twin == Invoke(impl[lastCall.facade],
                       [op |-> lastCall.op,
                        args |-> << JSString("__nodoc__") >> \o Tail(lastCall.args)],
                       TRUE)
    IN /\ lastCall.received =
            [op |-> lastCall.op,
             args |-> << JSString("__nodoc__") >> \o Tail(lastCall.args)]
       /\ lastCall.received = twin.received
       /\ lastCall.returned = twin.returned
       /\ lastCall.threw = twin.threw

\* C9 witness: setAttachment is called without a document key on a ready
\* facade.
C9_Witness ==
  /\ lastCall # NoCall
  /\ lastCall.wasReady
  /\ lastCall.op = "setAttachment"
  /\ lastCall.args[1] = Undefined
  /\ ~lastCall.threw

\* C10: on a ready facade getCapacity() returns what the adapter's
\* getCapacity returns when the adapter has one and -1 when it has none; on a
\* facade that is not ready it throws NO_IMPLEMENTATION and returns nothing.
C10_GetCapacity ==
  (lastCall # NoCall /\ lastCall.op = "getCapacity") =>
    LET this == impl[lastCall.facade]
        call == [op |-> "getCapacity", args |-> << >>]
    IN /\ (Installed(lastCall.facade) /\ lastCall.hasGetCapacity) =>
            /\ ~lastCall.threw
            /\ lastCall.received = call
            /\ lastCall.returned = AdapterReturn(this, call)
       /\ (Installed(lastCall.facade) /\ ~lastCall.hasGetCapacity) =>
            /\ ~lastCall.threw
            /\ lastCall.received = NoCall
            /\ lastCall.returned = JSNumber(-1)
       /\ ~Installed(lastCall.facade) =>
            /\ lastCall.threw
            /\ IsNoImplementation(lastCall.error)
            /\ lastCall.returned # JSNumber(-1)

\* C10 witness: getCapacity is called on a ready facade whose adapter has no
\* getCapacity.
C10_Witness ==
  /\ lastCall # NoCall
  /\ lastCall.op = "getCapacity"
  /\ lastCall.wasReady
  /\ ~lastCall.hasGetCapacity
  /\ lastCall.returned = JSNumber(-1)

\* The last negotiation of this page load to install an adapter.
LastSelected == selections[Len(selections)]

\* C11: a successful negotiation installs the adapter, then calls the
\* migration hook if the selected kind differs from the recorded one, then
\* sets the recorded kind to the selected kind and persists it, then
\* fulfils `initialized`: nothing comes after the fulfilment, and the
\* persisted record holds the selected kind by then.
C11_OrderOfEffects ==
  \A f \in Facades :
    initialized[f].state = "fulfilled" =>
      /\ effects[f] \in { << "install", "hook", "setMeta", "resolve" >>,
                          << "install", "setMeta", "resolve" >> }
      /\ Installed(f)
      /\ LastSelected = f =>
           /\ sessionMeta.o.lastStorageImpl = JSString(impl[f].type)
           /\ PersistedKind = JSString(impl[f].type)

\* The init calls of facade f that have settled: those that rejected, and
\* the one that resolved with the adapter installed.
SettledInits(f) == Len(failLog[f]) + (IF effects[f] # << >> THEN 1 ELSE 0)

\* C12: in one facade's negotiation at most one init call is in flight at
\* any moment, the init of a candidate is called only after the inits of all
\* candidates called before it have rejected, and no candidate's init is
\* called twice.
C12_SequentialFallback ==
  \A f \in Facades :
    /\ Len(initLog[f]) - SettledInits(f) \in {0, 1}
    /\ (inflight[f] # NoProvider) <=> (Len(initLog[f]) - SettledInits(f) = 1)
    /\ inflight[f] # NoProvider => inflight[f] = initLog[f][Len(initLog[f])]
    /\ Len(failLog[f]) <= Len(initLog[f])
    /\ failLog[f] = SubSeq(initLog[f], 1, Len(failLog[f]))
    /\ \A i, j \in 1..Len(initLog[f]) : initLog[f][i] = initLog[f][j] => i = j

\* C12 witness: the third candidate's init is in flight after the first two
\* rejected, while the other facade's first init is still in flight.
C12_Witness ==
  \E f, g \in Facades :
    /\ f # g
    /\ Len(initLog[f]) = 3 /\ Len(failLog[f]) = 2
    /\ inflight[f] = "WebSQLProvider"
    /\ Len(initLog[g]) = 1 /\ inflight[g] # NoProvider

\* Whether one of the facade's handler effects is the named one.
Did(f, e) == \E i \in 1..Len(effects[f]) : effects[f][i] = e

\* C13: whenever `initialized` is rejected the reason is the fixed message
\* 'No storage provider found', no adapter is installed then or later
\* (ready() is false and a gated method called then throws
\* NO_IMPLEMENTATION), the migration hook was not called for the facade and
\* its negotiation did not write the recorded kind.
C13_FailureLeavesFacadeUntouched ==
  \A f \in Facades :
    initialized[f].state = "rejected" =>
      /\ initialized[f].value = JSString("No storage provider found")
      /\ ~Installed(f)
      /\ ~ready(impl[f])
      /\ ~Did(f, "install")
      /\ ~Did(f, "hook") /\ HookCallsOf(f) = {}
      /\ ~Did(f, "setMeta")
      /\ (lastCall # NoCall /\ lastCall.facade = f) =>
           /\ lastCall.threw
           /\ IsNoImplementation(lastCall.error)

\* The position of facade f among the negotiations that installed an adapter.
SelectionIndex(f) == CHOOSE i \in 1..Len(selections) : selections[i] = f

\* The kind the prior session recorded: what the store held at page load.
PriorSessionKind == PersistedKind

\* The recorded kind as it stood when the negotiation of f completed: the
\* one loaded at page load for the first negotiation to complete, the kind
\* written by the negotiation that completed just before for the others.
RecordedBefore(f) ==
  IF SelectionIndex(f) = 1
    THEN PriorSessionKind
    ELSE JSString(impl[selections[SelectionIndex(f) - 1]].type)

\* C14 as stated: for every facade of the process a successful negotiation
\* calls the migration hook exactly once, with the prior session's kind, if
\* the selected kind differs from the kind the prior session recorded, and
\* does not call it if the two are equal.
C14_HookTriggerAsStated ==
  \A f \in Facades :
    initialized[f].state = "fulfilled" =>
      IF JSString(impl[f].type) # PriorSessionKind
        THEN /\ Cardinality(HookCallsOf(f)) = 1
             /\ \A i \in HookCallsOf(f) :
                  /\ hookCalls[i].from = PriorSessionKind
                  /\ hookCalls[i].to = impl[f]
        ELSE HookCallsOf(f) = {}

\* C14 amended: a successful negotiation calls the migration hook exactly
\* once, with the recorded kind and the adapter installed, if the selected
\* kind differs from the recorded kind as it stands when the negotiation
\* completes, and does not call it if the two are equal; the recorded kind
\* is the one loaded at page load (absent in a first session) for the first
\* negotiation of the process to complete, and the kind selected by the
\* negotiation that completed just before for every later one.
C14_HookTrigger ==
  \A f \in Facades :
    initialized[f].state = "fulfilled" =>
      IF JSString(impl[f].type) # RecordedBefore(f)
        THEN /\ Cardinality(HookCallsOf(f)) = 1
             /\ \A i \in HookCallsOf(f) :
                  /\ hookCalls[i].from = RecordedBefore(f)
                  /\ hookCalls[i].to = impl[f]
        ELSE HookCallsOf(f) = {}

\* C14 witness: the second negotiation to complete selected the kind the
\* prior session recorded, and the hook was called for it because the first
\* negotiation had selected another kind.
C14_Witness ==
  \E f \in Facades :
    /\ initialized[f].state = "fulfilled"
    /\ SelectionIndex(f) = 2
    /\ JSString(impl[f].type) = PriorSessionKind
    /\ Cardinality(HookCallsOf(f)) = 1

\* How many times the handler of facade f wrote the recorded kind.
MetaWrites(f) ==
  Cardinality({ i \in 1..Len(effects[f]) : effects[f][i] = "setMeta" })

\* C15: the recorded kind is written exactly once per successful
\* negotiation, after the adapter is installed and to that adapter's kind;
\* a negotiation that has not succeeded has not written it, and no step
\* other than the completion of a successful negotiation (no facade method
\* call, no failed init) changes it.
C15_WriteDiscipline ==
  /\ [](\A f \in Facades :
          /\ MetaWrites(f) =
               (IF initialized[f].state = "fulfilled" THEN 1 ELSE 0)
          /\ \A i \in 1..Len(effects[f]) :
               effects[f][i] = "setMeta" =>
                 \E j \in 1..(i - 1) : effects[f][j] = "install")
  /\ [](IF selections = << >>
          THEN sessionMeta = LoadSessionMeta(stored).value
          ELSE sessionMeta.o.lastStorageImpl =
                 JSString(impl[LastSelected].type))
  /\ [][ sessionMeta' # sessionMeta =>
           \E f \in Facades :
             /\ initialized[f].state = "pending"
             /\ initialized'[f].state = "fulfilled"
             /\ impl'[f].t = "adapter"
             /\ sessionMeta'.o.lastStorageImpl = JSString(impl'[f].type)
             /\ lastCall' = lastCall
             /\ failLog' = failLog ]_vars

\* C15 witness: a method is being called on a facade whose negotiation
\* wrote the recorded kind after an earlier candidate had failed.
C15_Witness ==
  /\ lastCall # NoCall
  /\ MetaWrites(lastCall.facade) = 1
  /\ failLog[lastCall.facade] # << >>
  /\ sessionMeta.o.lastStorageImpl = JSString(impl[lastCall.facade].type)

\* C20: two facades of one page load share the record: the hook decision of
\* each compares its selected kind with the record as the negotiation that
\* completed before it left it, the hook calls are made in the order the
\* negotiations complete, and once both have completed the record holds the
\* kind selected by the one that completed last.
C20_SharedSessionMetadata ==
  /\ \A i \in 1..Len(hookCalls) :
       /\ hookCalls[i].to = impl[hookCalls[i].facade]
       /\ \A j \in 1..Len(hookCalls) :
            i < j => SelectionIndex(hookCalls[i].facade)
                       < SelectionIndex(hookCalls[j].facade)
  /\ Len(selections) = 2 =>
       LET first == selections[1]
           second == selections[2]
       IN /\ sessionMeta.o.lastStorageImpl = JSString(impl[second].type)
          /\ (HookCallsOf(second) # {}) <=> (impl[second].type # impl[first].type)
          /\ \A i \in HookCallsOf(second) :
               hookCalls[i].from = JSString(impl[first].type)
          /\ (HookCallsOf(first) # {}) <=>
               (JSString(impl[first].type) # LoadSessionMeta(stored).value.o.lastStorageImpl)

\* C20 witness: both facades selected the same kind, which differs from the
\* stored one: the hook was called for the first to complete and not for
\* the second, the second being the facade constructed first.
C20_Witness ==
  /\ Len(selections) = 2
  /\ selections = << "B", "A" >>
  /\ impl["A"].type = impl["B"].type
  /\ HookCallsOf("B") # {} /\ HookCallsOf("A") = {}
  /\ JSString(impl["A"].type) # LoadSessionMeta(stored).value.o.lastStorageImpl

\* The document and attachment operations of the facade.
DocumentOps ==
  { "ls", "rm", "getContents", "setContents", "revokeAttachmentURL" }
  \cup AttachmentOps

\* The arguments the adapter is to receive for a call: the caller's, the
\* document key of an attachment operation replaced by '__nodoc__' where it
\* is one of the keys in `replaced`.
ExpectedArgs(op, args, replaced) ==
  IF op \in AttachmentOps /\ args[1] \in replaced
    THEN << JSString("__nodoc__") >> \o Tail(args)
    ELSE args

\* C17 as stated: on a ready facade a document or attachment operation
\* hands the adapter's operation of the same name the caller's arguments,
\* the document key replaced by the sentinel only where an attachment
\* operation was called without one (undefined or null), and returns what
\* the adapter returned.
C17_DelegationAsStated ==
  (lastCall # NoCall /\ lastCall.wasReady /\ lastCall.op \in DocumentOps) =>
    /\ ~lastCall.threw
    /\ lastCall.received =
         [op |-> lastCall.op,
          args |-> ExpectedArgs(lastCall.op, lastCall.args,
                                { Undefined, Null })]
    /\ lastCall.returned =
         AdapterReturn(impl[lastCall.facade], lastCall.received)

\* C17 amended: on a ready facade a document or attachment operation calls
\* the adapter's operation of the same name exactly once, with the caller's
\* arguments except that an attachment operation's document key is replaced
\* by the sentinel where it is falsy (left out, null or the empty string),
\* and returns to the caller what the adapter returned for that call.
C17_TransparentDelegation ==
  /\ []((lastCall # NoCall /\ lastCall.wasReady
            /\ lastCall.op \in DocumentOps) =>
          /\ ~lastCall.threw
          /\ lastCall.received =
               [op |-> lastCall.op,
                args |-> ExpectedArgs(lastCall.op, lastCall.args,
                                      { Undefined, Null, JSString("") })]
          /\ lastCall.returned =
               AdapterReturn(impl[lastCall.facade], lastCall.received))
  /\ [][ (lastCall = NoCall /\ lastCall' # NoCall) =>
           \A f \in Facades :
             adapterCalls'[f] =
               adapterCalls[f]
               + (IF f = lastCall'.facade /\ lastCall'.wasReady
                       /\ lastCall'.op \in DocumentOps
                    THEN 1 ELSE 0)
               + (IF f = lastCall'.facade /\ lastCall'.wasReady
                       /\ lastCall'.op \notin DocumentOps
                       /\ lastCall'.received # NoCall
                    THEN 1 ELSE 0) ]_vars
  /\ [][ lastCall # NoCall => adapterCalls' = adapterCalls ]_vars

\* C17 witness: setAttachment is called on a ready facade with the empty
\* string as the document key, and the adapter has received the sentinel
\* with the caller's attachment key and data, once.
C17_Witness ==
  /\ lastCall # NoCall
  /\ lastCall.wasReady
  /\ lastCall.op = "setAttachment"
  /\ lastCall.args = << JSString(""), AttachKey, Data >>
  /\ lastCall.received.args = << JSString("__nodoc__"), AttachKey, Data >>
  /\ adapterCalls[lastCall.facade] = 1

\* C18: while the init call in flight for a facade has not settled, no
\* other init is called for it, `initialized` stays pending, no adapter is
\* installed, ready() is false, and a gated method called on it throws
\* NO_IMPLEMENTATION without reaching an adapter: nothing but the settling
\* of that init call moves the negotiation.
C18_HungInitStalls ==
  /\ [](\A f \in Facades :
          inflight[f] # NoProvider =>
            /\ initialized[f] = PendingPromise
            /\ impl[f] = Undefined
            /\ ~ready(impl[f])
            /\ initLog[f][Len(initLog[f])] = inflight[f]
            /\ (lastCall # NoCall /\ lastCall.facade = f) =>
                 /\ lastCall.threw
                 /\ IsNoImplementation(lastCall.error)
                 /\ lastCall.received = NoCall)
  /\ [][ \A f \in Facades :
           (inflight[f] # NoProvider /\ SettledInits(f)' = SettledInits(f)) =>
             /\ inflight'[f] = inflight[f]
             /\ initLog'[f] = initLog[f]
             /\ initialized'[f] = initialized[f]
             /\ impl'[f] = impl[f] ]_vars

\* C18 witness: a gated method has thrown on a facade whose second
\* candidate's init is in flight, while the other facade has become ready.
C18_Witness ==
  /\ lastCall # NoCall
  /\ lastCall.threw
  /\ inflight[lastCall.facade] = "IndexedDBProvider"
  /\ \E g \in Facades : g # lastCall.facade /\ Installed(g)

\* C19: a facade's adapter is installed at most once; once installed it is
\* neither replaced nor removed, so ready() does not go back to false, and
\* a method called on the facade is delegated to that adapter.
C19_SingleStableAdapter ==
  /\ [](\A f \in Facades :
          /\ Cardinality({ i \in 1..Len(effects[f]) :
                             effects[f][i] = "install" }) <= 1
          /\ Cardinality({ i \in 1..Len(selections) :
                             selections[i] = f }) <= 1
          /\ Installed(f) => impl[f] = Adapter(initLog[f][Len(initLog[f])]))
  /\ []((lastCall # NoCall /\ lastCall.received # NoCall) =>
          /\ Installed(lastCall.facade)
          /\ lastCall.returned.of = impl[lastCall.facade].provider)
  /\ [][ \A f \in Facades :
           /\ Installed(f) => impl'[f] = impl[f]
           /\ ready(impl[f]) => ready(impl'[f]) ]_vars

\* C19 witness: a method call is delegated to the adapter of a facade whose
\* adapter was installed after a fallback, the other facade holding the
\* adapter of another provider.
C19_Witness ==
  /\ lastCall # NoCall
  /\ lastCall.received # NoCall
  /\ failLog[lastCall.facade] # << >>
  /\ \E g \in Facades :
       /\ Installed(g)
       /\ impl[g].provider # impl[lastCall.facade].provider

\* Whether the stored item is the text of a record (a JSON object).
IsRecordText(item) ==
  /\ Truthy(item)
  /\ ~JSONparse(item.s).threw
  /\ JSONparse(item.s).value.t = "object"

\* The empty record.
EmptyRecord == JSObject([lastStorageImpl |-> Undefined])

\* C16: the module body loads the session metadata without failing, so that
\* facades can be constructed afterwards, and until a negotiation writes it
\* the record is the empty one both when nothing is stored and when what is
\* stored is malformed.
C16_MetadataLoad ==
  /\ loaded
  /\ sessionMeta.t = "object"
  /\ (~IsRecordText(stored) /\ selections = << >>) => sessionMeta = EmptyRecord

(***************************************************************************)
(* Specifications.  Spec: one page load, with the facade methods called at *)
(* any moment.  SessionSpec: negotiations across page reloads.  LoadSpec:  *)
(* as Spec, the store holding any text when the page loads.  FairSpec: the *)
(* negotiations of one page load, every init call settling.                *)
(***************************************************************************)
Next ==
  \/ \E f \in Facades, force \in ForceValues : Construct(f, force)
  \/ \E f \in Facades : InitResolved(f)
  \/ \E f \in Facades : InitRejected(f)
  \/ \E f \in Facades, c \in Invocations, g \in BOOLEAN : FacadeCall(f, c, g)
  \/ CallReturns

SessionNext ==
  \/ \E f \in Facades, force \in ForceValues : Construct(f, force)
  \/ \E f \in Facades : InitResolved(f)
  \/ \E f \in Facades : InitRejected(f)
  \/ Restart

Spec == Init /\ [][Next]_vars

SessionSpec == Init /\ [][SessionNext]_vars

LoadSpec == LoadInit /\ [][Next]_vars

\* The init call of facade f that is in flight settles, either way.
Settle(f) == InitResolved(f) \/ InitRejected(f)

FairNext ==
  \/ \E f \in Facades, force \in ForceValues : Construct(f, force)
  \/ \E f \in Facades : InitResolved(f)
  \/ \E f \in Facades : InitRejected(f)

FairSpec ==
  Init /\ [][FairNext]_vars /\ \A f \in Facades : WF_vars(Settle(f))

====
